---- MODULE Spec2Model ----
(***************************************************************************)
(* Model of carbon.py: the footprint estimator calculate_carbon_footprint  *)
(* and the Streamlit page section that feeds it from seven sliders and     *)
(* renders the total and the recommendation lines.                         *)
(*                                                                         *)
(* Numbers.  Python numbers are modelled as exact rationals <<n, d>> in    *)
(* lowest terms with d > 0 (an int k is <<k, 1>>, the literal 0.8 is       *)
(* <<4, 5>>).  On every input this model draws with no negative field,     *)
(* the total the estimator computes in IEEE doubles is the double nearest  *)
(* to the exact rational computed here, and the comparisons and the        *)
(* 2-decimal formatting agree; with a negative field the double total is   *)
(* within a few units in the last place of it and has its sign.            *)
(*                                                                         *)
(* Page runs.  Streamlit executes the script from top to bottom on every   *)
(* interaction.  One action is one such run: the widget that triggered it  *)
(* has its new value, st.button returns True only in the run its click     *)
(* triggered, and what the run renders replaces what the page showed.      *)
(* st.slider is taken to return a value of its min..max range on its step  *)
(* grid.                                                                   *)
(***************************************************************************)
EXTENDS Integers, Sequences, FiniteSets

\* Slider positions explored above each recommendation threshold: the edge
\* itself (the largest position where the line is not written) and the next
\* Spread positions of the step grid.
Spread == 1

\* Negative arguments -1 .. -MaxNeg handed to the estimator when it is called
\* directly as a function.
MaxNeg == 1

VARIABLES
    electricity_kwh,        \* the seven slider values / the estimator's arguments
    car_km,
    flights_hours,
    waste_kg,
    meat_servings_week,
    clothing_items_month,
    streaming_hours_day,
    button,                 \* what st.button returned in the latest run
    total_co2,              \* the estimator's return value, None when not called
    displayed,              \* the figure of the subheader, in hundredths: <<c>> or None
    out,                    \* the lines the latest run rendered below the button
    exc                     \* the exception that escaped the estimator, "none" if none

inputs == <<electricity_kwh, car_km, flights_hours, waste_kg,
            meat_servings_week, clothing_items_month, streaming_hours_day>>

vars == <<electricity_kwh, car_km, flights_hours, waste_kg, meat_servings_week,
          clothing_items_month, streaming_hours_day, button, total_co2, displayed,
          out, exc>>

None == <<>>

----------------------------------------------------------------------------
\* Python arithmetic on numbers.

Abs(n) == IF n < 0 THEN -n ELSE n

RECURSIVE GCD(_, _)
GCD(a, b) == IF b = 0 THEN a ELSE GCD(b, a % b)

\* The number n/d (d # 0) in lowest terms with a positive denominator.
Q(n, d) ==
    LET s == IF d < 0 THEN -1 ELSE 1
        g == GCD(Abs(n), Abs(d))
    IN  <<(s * n) \div g, (s * d) \div g>>

\* An int.
R(k) == <<k, 1>>

\* x * y
Mul(x, y) == Q(x[1] * y[1], x[2] * y[2])

\* x / y (true division; y # 0)
Div(x, y) == Q(x[1] * y[2], x[2] * y[1])

\* x + y
Add(x, y) == Q(x[1] * y[2] + y[1] * x[2], x[2] * y[2])

\* x > y
Gt(x, y) == x[1] * y[2] > y[1] * x[2]

\* f"{x:.2f}": x to two decimals, ties to even, as a count of hundredths.
Fmt2(x) ==
    LET n == x[1] * 100
        q == n \div x[2]
        r == n % x[2]
    IN  IF 2 * r > x[2] THEN q + 1
        ELSE IF 2 * r < x[2] THEN q
        ELSE IF q % 2 = 0 THEN q ELSE q + 1

----------------------------------------------------------------------------
\* The estimator.

\* Variants of the estimator, each one slip away from the source.

\* round(total_emission, 2) returned.
calculate_rounded(electricity, car, flights, waste, meat, clothing, streaming) ==
    LET total_emission ==
            Add(Add(Add(Add(Add(Add(Mul(electricity, Q(8, 10)), Mul(car, Q(2, 10))),
                Mul(Div(flights, R(12)), R(90))), Mul(waste, Q(5, 10))),
                Mul(Mul(meat, R(4)), R(5))), Mul(clothing, R(10))),
                Mul(Mul(streaming, R(30)), Q(5, 100)))
    IN  Q(Fmt2(total_emission), 100)

\* The annual flight hours weighted without the division by 12.
calculate_annual_flights(electricity, car, flights, waste, meat, clothing, streaming) ==
    Add(Add(Add(Add(Add(Add(Mul(electricity, Q(8, 10)), Mul(car, Q(2, 10))),
        Mul(flights, R(90))), Mul(waste, Q(5, 10))),
        Mul(Mul(meat, R(4)), R(5))), Mul(clothing, R(10))),
        Mul(Mul(streaming, R(30)), Q(5, 100)))

\* The waste term subtracted instead of added.
calculate_minus_waste(electricity, car, flights, waste, meat, clothing, streaming) ==
    Add(Add(Add(Add(Add(Add(Mul(electricity, Q(8, 10)), Mul(car, Q(2, 10))),
        Mul(Div(flights, R(12)), R(90))), Mul(Mul(waste, Q(5, 10)), R(-1))),
        Mul(Mul(meat, R(4)), R(5))), Mul(clothing, R(10))),
        Mul(Mul(streaming, R(30)), Q(5, 100)))

calculate_carbon_footprint(electricity, car, flights, waste, meat, clothing, streaming) ==
    LET electricity_emission == Mul(electricity, Q(8, 10))
        car_emission == Mul(car, Q(2, 10))
        monthly_flights_hours == Div(flights, R(12))
        flights_emission == Mul(monthly_flights_hours, R(90))
        waste_emission == Mul(waste, Q(5, 10))
        meat_emission == Mul(Mul(meat, R(4)), R(5))
        clothing_emission == Mul(clothing, R(10))
        streaming_emission == Mul(Mul(streaming, R(30)), Q(5, 100))
        total_emission ==
            Add(Add(Add(Add(Add(Add(electricity_emission, car_emission),
                flights_emission), waste_emission), meat_emission),
                clothing_emission), streaming_emission)
    IN  total_emission

\* The exception a call of the estimator raises: the function holds no raise
\* statement and its arithmetic is defined on every number.
calculate_raises(electricity, car, flights, waste, meat, clothing, streaming) == "none"

----------------------------------------------------------------------------
\* The recommendation lines written below the total, in the order written.

\* Variants of the recommendation checks, each one slip away from the source.

\* The checks chained with elif: the first that matches hides the later ones.
Recommendations_elif(electricity, car, flights, waste, meat, clothing, streaming) ==
       (IF Gt(electricity, R(100)) THEN <<"Electricity">>
        ELSE IF Gt(car, R(200)) THEN <<"Transportation">>
        ELSE IF Gt(Mul(Div(flights, R(12)), R(90)), R(50)) THEN <<"Flights">>
        ELSE IF Gt(waste, R(5)) THEN <<"Waste">>
        ELSE IF Gt(meat, R(2)) THEN <<"Diet">>
        ELSE IF Gt(clothing, R(1)) THEN <<"Consumption">>
        ELSE IF Gt(streaming, R(1)) THEN <<"Digital Footprint">>
        ELSE <<>>)
    \o <<"General">>

\* The flights check on the raw annual hours.
Recommendations_raw_flights(electricity, car, flights, waste, meat, clothing, streaming) ==
       (IF Gt(electricity, R(100)) THEN <<"Electricity">> ELSE <<>>)
    \o (IF Gt(car, R(200)) THEN <<"Transportation">> ELSE <<>>)
    \o (IF Gt(flights, R(50)) THEN <<"Flights">> ELSE <<>>)
    \o (IF Gt(waste, R(5)) THEN <<"Waste">> ELSE <<>>)
    \o (IF Gt(meat, R(2)) THEN <<"Diet">> ELSE <<>>)
    \o (IF Gt(clothing, R(1)) THEN <<"Consumption">> ELSE <<>>)
    \o (IF Gt(streaming, R(1)) THEN <<"Digital Footprint">> ELSE <<>>)
    \o <<"General">>

\* The general line written only when no other line was.
Recommendations_general_else(electricity, car, flights, waste, meat, clothing, streaming) ==
    LET specific ==
               (IF Gt(electricity, R(100)) THEN <<"Electricity">> ELSE <<>>)
            \o (IF Gt(car, R(200)) THEN <<"Transportation">> ELSE <<>>)
            \o (IF Gt(Mul(Div(flights, R(12)), R(90)), R(50)) THEN <<"Flights">> ELSE <<>>)
            \o (IF Gt(waste, R(5)) THEN <<"Waste">> ELSE <<>>)
            \o (IF Gt(meat, R(2)) THEN <<"Diet">> ELSE <<>>)
            \o (IF Gt(clothing, R(1)) THEN <<"Consumption">> ELSE <<>>)
            \o (IF Gt(streaming, R(1)) THEN <<"Digital Footprint">> ELSE <<>>)
    IN  IF specific = <<>> THEN <<"General">> ELSE specific

\* The flights comparison written the wrong way round.
Recommendations_flights_below(electricity, car, flights, waste, meat, clothing, streaming) ==
       (IF Gt(electricity, R(100)) THEN <<"Electricity">> ELSE <<>>)
    \o (IF Gt(car, R(200)) THEN <<"Transportation">> ELSE <<>>)
    \o (IF Gt(R(50), Mul(Div(flights, R(12)), R(90))) THEN <<"Flights">> ELSE <<>>)
    \o (IF Gt(waste, R(5)) THEN <<"Waste">> ELSE <<>>)
    \o (IF Gt(meat, R(2)) THEN <<"Diet">> ELSE <<>>)
    \o (IF Gt(clothing, R(1)) THEN <<"Consumption">> ELSE <<>>)
    \o (IF Gt(streaming, R(1)) THEN <<"Digital Footprint">> ELSE <<>>)
    \o <<"General">>

Recommendations(electricity, car, flights, waste, meat, clothing, streaming) ==
       (IF Gt(electricity, R(100)) THEN <<"Electricity">> ELSE <<>>)
    \o (IF Gt(car, R(200)) THEN <<"Transportation">> ELSE <<>>)
    \o (IF Gt(Mul(Div(flights, R(12)), R(90)), R(50)) THEN <<"Flights">> ELSE <<>>)
    \o (IF Gt(waste, R(5)) THEN <<"Waste">> ELSE <<>>)
    \o (IF Gt(meat, R(2)) THEN <<"Diet">> ELSE <<>>)
    \o (IF Gt(clothing, R(1)) THEN <<"Consumption">> ELSE <<>>)
    \o (IF Gt(streaming, R(1)) THEN <<"Digital Footprint">> ELSE <<>>)
    \o <<"General">>

----------------------------------------------------------------------------
\* The sliders: st.slider(label, min_value, max_value, value, step).

electricity_kwh_slider == [min |-> R(0), max |-> R(1000), value |-> R(150), step |-> R(5)]
\* Variant of car_km_slider: a minimum below zero.
car_km_slider_negative == [min |-> R(-2000), max |-> R(2000), value |-> R(300), step |-> R(10)]

car_km_slider          == [min |-> R(0), max |-> R(2000), value |-> R(300), step |-> R(10)]
flights_hours_slider   == [min |-> R(0), max |-> R(100),  value |-> R(5),   step |-> R(1)]
waste_kg_slider        == [min |-> R(0), max |-> R(100),  value |-> R(10),  step |-> R(1)]
meat_servings_slider   == [min |-> R(0), max |-> R(20),   value |-> R(4),   step |-> R(1)]
clothing_items_slider  == [min |-> R(0), max |-> R(10),   value |-> R(1),   step |-> R(1)]
streaming_hours_slider == [min |-> R(0), max |-> R(8),    value |-> R(2),   step |-> Q(1, 2)]

\* v is a position of slider s: within min..max, a whole number of steps from min.
OnSlider(s, v) ==
    /\ ~Gt(s.min, v)
    /\ ~Gt(v, s.max)
    /\ Div(Add(v, Mul(R(-1), s.min)), s.step)[2] = 1

\* The positions of slider s the model moves it to: its minimum, its maximum,
\* its initial value, the positions `marks`, and edge, edge + step, ..
\* edge + Spread * step.
Positions(s, edge, marks) ==
    {v \in {s.min, s.max, s.value} \cup marks \cup
           {Add(edge, Mul(R(k), s.step)) : k \in 0..Spread} : OnSlider(s, v)}

ElectricityPositions == Positions(electricity_kwh_slider, R(100), {})
CarPositions         == Positions(car_km_slider, R(200), {R(50)})
FlightsPositions     == Positions(flights_hours_slider, R(6), {R(12)})
WastePositions       == Positions(waste_kg_slider, R(5), {})
MeatPositions        == Positions(meat_servings_slider, R(2), {})
ClothingPositions    == Positions(clothing_items_slider, R(1), {})
StreamingPositions   == Positions(streaming_hours_slider, R(1), {})

----------------------------------------------------------------------------
\* The page.

\* Variant of NoButtonRun: what the previous run computed and rendered is kept.
StaleRun ==
    /\ button' = button
    /\ total_co2' = total_co2
    /\ displayed' = displayed
    /\ out' = out
    /\ exc' = "none"

\* A run in which st.button returns False: the block under it is skipped, so no
\* total is computed and nothing is rendered below the button.
NoButtonRun ==
    /\ button' = FALSE
    /\ total_co2' = None
    /\ displayed' = None
    /\ out' = <<>>
    /\ exc' = "none"

\* Variant of ButtonRun: the recommendation lines written above the total.
ButtonRun_lines_first ==
    /\ button' = TRUE
    /\ total_co2' = calculate_carbon_footprint(electricity_kwh, car_km, flights_hours,
            waste_kg, meat_servings_week, clothing_items_month, streaming_hours_day)
    /\ displayed' = <<Fmt2(total_co2')>>
    /\ out' = Recommendations(electricity_kwh, car_km, flights_hours,
            waste_kg, meat_servings_week, clothing_items_month, streaming_hours_day)
            \o <<"Total">>
    /\ exc' = "none"

\* A run in which st.button returns True: the estimator is called on the slider
\* values, the total is rendered to two decimals, then the recommendation lines.
ButtonRun ==
    /\ button' = TRUE
    /\ total_co2' = calculate_carbon_footprint(electricity_kwh, car_km, flights_hours,
            waste_kg, meat_servings_week, clothing_items_month, streaming_hours_day)
    /\ displayed' = <<Fmt2(total_co2')>>
    /\ out' = <<"Total">> \o Recommendations(electricity_kwh, car_km, flights_hours,
            waste_kg, meat_servings_week, clothing_items_month, streaming_hours_day)
    /\ exc' = "none"

SetElectricity ==
    /\ \E v \in ElectricityPositions \ {electricity_kwh} : electricity_kwh' = v
    /\ UNCHANGED <<car_km, flights_hours, waste_kg, meat_servings_week,
                   clothing_items_month, streaming_hours_day>>
    /\ NoButtonRun

SetCar ==
    /\ \E v \in CarPositions \ {car_km} : car_km' = v
    /\ UNCHANGED <<electricity_kwh, flights_hours, waste_kg, meat_servings_week,
                   clothing_items_month, streaming_hours_day>>
    /\ NoButtonRun

SetFlights ==
    /\ \E v \in FlightsPositions \ {flights_hours} : flights_hours' = v
    /\ UNCHANGED <<electricity_kwh, car_km, waste_kg, meat_servings_week,
                   clothing_items_month, streaming_hours_day>>
    /\ NoButtonRun

SetWaste ==
    /\ \E v \in WastePositions \ {waste_kg} : waste_kg' = v
    /\ UNCHANGED <<electricity_kwh, car_km, flights_hours, meat_servings_week,
                   clothing_items_month, streaming_hours_day>>
    /\ NoButtonRun

SetMeat ==
    /\ \E v \in MeatPositions \ {meat_servings_week} : meat_servings_week' = v
    /\ UNCHANGED <<electricity_kwh, car_km, flights_hours, waste_kg,
                   clothing_items_month, streaming_hours_day>>
    /\ NoButtonRun

SetClothing ==
    /\ \E v \in ClothingPositions \ {clothing_items_month} : clothing_items_month' = v
    /\ UNCHANGED <<electricity_kwh, car_km, flights_hours, waste_kg,
                   meat_servings_week, streaming_hours_day>>
    /\ NoButtonRun

SetStreaming ==
    /\ \E v \in StreamingPositions \ {streaming_hours_day} : streaming_hours_day' = v
    /\ UNCHANGED <<electricity_kwh, car_km, flights_hours, waste_kg,
                   meat_servings_week, clothing_items_month>>
    /\ NoButtonRun

\* A click on "Calculate My Footprint".
Calculate ==
    /\ UNCHANGED inputs
    /\ ButtonRun

Init ==
    /\ electricity_kwh = electricity_kwh_slider.value
    /\ car_km = car_km_slider.value
    /\ flights_hours = flights_hours_slider.value
    /\ waste_kg = waste_kg_slider.value
    /\ meat_servings_week = meat_servings_slider.value
    /\ clothing_items_month = clothing_items_slider.value
    /\ streaming_hours_day = streaming_hours_slider.value
    /\ button = FALSE
    /\ total_co2 = None
    /\ displayed = None
    /\ out = <<>>
    /\ exc = "none"

Next ==
    \/ SetElectricity
    \/ SetCar
    \/ SetFlights
    \/ SetWaste
    \/ SetMeat
    \/ SetClothing
    \/ SetStreaming
    \/ Calculate

Spec == Init /\ [][Next]_vars

----------------------------------------------------------------------------
\* The estimator called directly, as a function of seven numbers: the arguments
\* are a slider's minimum or initial value, a marked value, or a negative number.

Arguments(s, marks) == {s.min, s.value} \cup marks \cup {R(-k) : k \in 1..MaxNeg}

\* The argument values drawn for each of the seven parameters, in order.
ArgumentSets ==
    << Arguments(electricity_kwh_slider, {}),
       Arguments(car_km_slider, {}),
       Arguments(flights_hours_slider, {R(7), R(12)}),
       Arguments(waste_kg_slider, {}),
       Arguments(meat_servings_slider, {}),
       Arguments(clothing_items_slider, {}),
       Arguments(streaming_hours_slider, {Q(1, 4)}) >>

FnInit ==
    /\ electricity_kwh \in ArgumentSets[1]
    /\ car_km \in ArgumentSets[2]
    /\ flights_hours \in ArgumentSets[3]
    /\ waste_kg \in ArgumentSets[4]
    /\ meat_servings_week \in ArgumentSets[5]
    /\ clothing_items_month \in ArgumentSets[6]
    /\ streaming_hours_day \in ArgumentSets[7]
    /\ button = FALSE
    /\ total_co2 = None
    /\ displayed = None
    /\ out = <<>>
    /\ exc = "none"

\* One call of calculate_carbon_footprint and its outcome.
CallEstimator ==
    /\ total_co2 = None
    /\ exc = "none"
    /\ exc' = calculate_raises(electricity_kwh, car_km, flights_hours, waste_kg,
            meat_servings_week, clothing_items_month, streaming_hours_day)
    /\ total_co2' = IF exc' = "none"
                    THEN calculate_carbon_footprint(electricity_kwh, car_km,
                            flights_hours, waste_kg, meat_servings_week,
                            clothing_items_month, streaming_hours_day)
                    ELSE None
    /\ UNCHANGED <<inputs, button, displayed, out>>

FnNext == CallEstimator

SpecFn == FnInit /\ [][FnNext]_vars

----------------------------------------------------------------------------
\* Properties of the estimator called as a function (SpecFn).

\* The call has returned or raised.
Called == total_co2 # None \/ exc # "none"

\* No field is negative.
Valid == \A i \in 1..7 : inputs[i][1] >= 0

\* Every field but the i-th is 0.
OthersZero(i) == \A j \in (1..7) \ {i} : inputs[j] = R(0)

\* The estimator on a tuple of seven numbers.
Estimate(a) == calculate_carbon_footprint(a[1], a[2], a[3], a[4], a[5], a[6], a[7])

\* The product of the seven fields' denominators.
Dens == inputs[1][2] * inputs[2][2] * inputs[3][2] * inputs[4][2]
        * inputs[5][2] * inputs[6][2] * inputs[7][2]

\* The i-th field as a whole number of 1/Dens.
Scaled(i) == inputs[i][1] * (Dens \div inputs[i][2])

\* C1: for non-negative inputs the estimator returns exactly
\* electricity*0.8 + car*0.2 + (flights/12)*90 + waste*0.5 + (meat*4)*5
\* + clothing*10 + (streaming*30)*0.05, unrounded.  In twentieths of a kg the
\* seven weights are 16, 4, 150, 10, 400, 200 and 30, so with the fields as
\* whole numbers of 1/Dens:  20 * Dens * total = the weighted sum.
C1_ExactWeightedSum ==
    (Called /\ Valid) =>
        /\ total_co2 # None
        /\ 20 * Dens * total_co2[1] =
             total_co2[2] * (16 * Scaled(1) + 4 * Scaled(2) + 150 * Scaled(3)
                             + 10 * Scaled(4) + 400 * Scaled(5) + 200 * Scaled(6)
                             + 30 * Scaled(7))

\* A returned total with more than two decimals: rounding would have changed it.
C1_Witness ==
    /\ Called /\ Valid
    /\ total_co2 # None
    /\ (total_co2[1] * 100) % total_co2[2] # 0
    /\ electricity_kwh = R(150) /\ meat_servings_week = R(4)

\* C2: whenever one of the seven fields is negative the estimator rejects the
\* call with an InvalidInput error and returns no total.
C2_NegativeRejected ==
    (Called /\ ~Valid) => (exc = "InvalidInput" /\ total_co2 = None)

\* C3: flights_hours is divided by 12 before the factor 90 is applied: with
\* flights_hours = 12 and every other field 0 the total is exactly 90, and in
\* general the total exceeds the total of the same inputs without flights by
\* flights_hours * 90 / 12.
C3_FlightsMonthly ==
    (Called /\ total_co2 # None) =>
        LET ground == Estimate([inputs EXCEPT ![3] = R(0)])
        IN  /\ (flights_hours = R(12) /\ OthersZero(3)) => total_co2 = R(90)
            /\ 12 * flights_hours[2] * (total_co2[1] * ground[2] - ground[1] * total_co2[2])
                 = 90 * flights_hours[1] * total_co2[2] * ground[2]

C3_Witness ==
    /\ flights_hours = R(12) /\ OthersZero(3)
    /\ total_co2 = R(90)

\* C8: for two valid input records that differ in one field only, the record
\* with the larger value in that field has no smaller total.
C8_Monotone ==
    (Called /\ Valid /\ total_co2 # None) =>
        \A i \in 1..7 : \A v \in ArgumentSets[i] :
            (v[1] >= 0 /\ Gt(v, inputs[i])) =>
                ~Gt(total_co2, Estimate([inputs EXCEPT ![i] = v]))

\* A returned total of a valid record in which waste can still be raised.
C8_Witness ==
    /\ Called /\ Valid /\ total_co2 # None
    /\ waste_kg = R(0)
    /\ \E v \in ArgumentSets[4] : Gt(v, waste_kg)

\* C9: for every valid input record the returned total is >= 0.
C9_NonNegative ==
    (Called /\ Valid) => (total_co2 # None /\ total_co2[1] >= 0)

\* A valid record with waste as its only non-zero field, and its total.
C9_Witness ==
    /\ Called /\ Valid /\ total_co2 # None
    /\ waste_kg = R(10) /\ OthersZero(4)
    /\ total_co2 = R(5)

----------------------------------------------------------------------------
\* Properties of the page (Spec).

\* The recommendation lines the latest run rendered (out without the total).
Tags == {out[i] : i \in 2..Len(out)}

\* C4: each of the six raw-threshold lines is rendered iff its own input
\* exceeds its threshold, whatever the other inputs are: Electricity iff
\* electricity_kwh > 100, Transportation iff car_km > 200, Waste iff
\* waste_kg > 5, Diet iff meat_servings_week > 2, Consumption iff
\* clothing_items_month > 1, Digital Footprint iff streaming_hours_day > 1.
C4_RawThresholds ==
    button =>
        /\ "Electricity" \in Tags <=> electricity_kwh[1] > 100 * electricity_kwh[2]
        /\ "Transportation" \in Tags <=> car_km[1] > 200 * car_km[2]
        /\ "Waste" \in Tags <=> waste_kg[1] > 5 * waste_kg[2]
        /\ "Diet" \in Tags <=> meat_servings_week[1] > 2 * meat_servings_week[2]
        /\ "Consumption" \in Tags <=> clothing_items_month[1] > 1 * clothing_items_month[2]
        /\ "Digital Footprint" \in Tags <=> streaming_hours_day[1] > 1 * streaming_hours_day[2]

\* electricity 150, car 50, everything else 0: only Electricity and General.
C4_Witness ==
    /\ button
    /\ inputs = <<R(150), R(50), R(0), R(0), R(0), R(0), R(0)>>
    /\ out = <<"Total", "Electricity", "General">>

\* C5: the Flights line is rendered iff (flights_hours / 12) * 90 > 50, that
\* is iff 90 * flights_hours > 600; for whole hours, iff flights_hours >= 7.
C5_FlightsDerived ==
    button =>
        /\ "Flights" \in Tags <=> 90 * flights_hours[1] > 600 * flights_hours[2]
        /\ flights_hours[2] = 1 => ("Flights" \in Tags <=> flights_hours[1] >= 7)

\* Seven annual hours (52.5 kg a month): the line is rendered.
C5_Witness ==
    /\ button
    /\ flights_hours = R(7)
    /\ "Flights" \in Tags

\* C6: whenever a footprint is calculated the General line is rendered.
C6_GeneralAlways ==
    button => (Len(out) >= 2 /\ out[Len(out)] = "General")

\* General rendered below all seven other lines.
C6_Witness ==
    /\ button
    /\ out = <<"Total", "Electricity", "Transportation", "Flights", "Waste", "Diet",
               "Consumption", "Digital Footprint", "General">>

\* C7: with all seven inputs 0 the total is exactly 0 and the lines rendered
\* are exactly {General}.
C7_ZeroInput ==
    (button /\ \A i \in 1..7 : inputs[i] = R(0)) =>
        /\ total_co2 = R(0)
        /\ displayed = <<0>>
        /\ Tags = {"General"}

C7_Witness ==
    /\ button
    /\ \A i \in 1..7 : inputs[i] = R(0)
    /\ out = <<"Total", "General">>

\* C10: what the page shows depends only on the current seven inputs: after
\* any sequence of slider moves and clicks, a run of a click shows the
\* estimator's total and the lines of the current inputs, and any other run
\* shows nothing carried over from an earlier request.
C10_Stateless ==
    /\ button =>
        /\ total_co2 = Estimate(inputs)
        /\ displayed = <<Fmt2(Estimate(inputs))>>
        /\ out = <<"Total">> \o Recommendations(electricity_kwh, car_km, flights_hours,
                    waste_kg, meat_servings_week, clothing_items_month,
                    streaming_hours_day)
    /\ ~button => (total_co2 = None /\ displayed = None /\ out = <<>>)

\* A request at inputs other than the initial ones (7 flight hours, no waste):
\* 120 + 60 + 52.5 + 0 + 80 + 10 + 3 = 325.50.
C10_Witness ==
    /\ button
    /\ inputs = <<R(150), R(300), R(7), R(0), R(4), R(1), R(2)>>
    /\ displayed = <<32550>>

\* v is one of lo, lo + step, .. up to hi, for whole lo and hi and the step
\* stepn / stepd.
InDocumentedRange(v, lo, hi, stepn, stepd) ==
    /\ v[1] >= lo * v[2]
    /\ v[1] <= hi * v[2]
    /\ ((v[1] - lo * v[2]) * stepd) % (v[2] * stepn) = 0

\* C11: in every state of the page the seven values handed to the estimator
\* lie in the documented control ranges (electricity 0..1000 step 5, car
\* 0..2000 step 10, flights 0..100 step 1, waste 0..100 step 1, meat 0..20
\* step 1, clothing 0..10 step 1, streaming 0..8 step 0.5), so none is
\* negative, and a run of a click calls the estimator on exactly these values
\* and gets a total, not an error.
C11_InputsInRange ==
    /\ InDocumentedRange(electricity_kwh, 0, 1000, 5, 1)
    /\ InDocumentedRange(car_km, 0, 2000, 10, 1)
    /\ InDocumentedRange(flights_hours, 0, 100, 1, 1)
    /\ InDocumentedRange(waste_kg, 0, 100, 1, 1)
    /\ InDocumentedRange(meat_servings_week, 0, 20, 1, 1)
    /\ InDocumentedRange(clothing_items_month, 0, 10, 1, 1)
    /\ InDocumentedRange(streaming_hours_day, 0, 8, 1, 2)
    /\ Valid
    /\ button => (exc = "none" /\ total_co2 = Estimate(inputs))

\* A click with sliders at a maximum, at a minimum and on a half step:
\* 800 + 0 + 37.5 + 5 + 80 + 10 + 2.25 = 934.75.
C11_Witness ==
    /\ button
    /\ inputs = <<R(1000), R(0), R(5), R(10), R(4), R(1), Q(3, 2)>>
    /\ total_co2 = Q(93475, 100)

\* The recommendation lines in the order the claim fixes: ELECTRICITY,
\* TRANSPORT, FLIGHTS, WASTE, DIET, CONSUMPTION, DIGITAL, GENERAL.
LineOrder == <<"Electricity", "Transportation", "Flights", "Waste", "Diet",
               "Consumption", "Digital Footprint", "General">>

\* The place of line t in LineOrder, 0 if it is none of them.
Rank(t) ==
    IF \E k \in 1..Len(LineOrder) : LineOrder[k] = t
    THEN CHOOSE k \in 1..Len(LineOrder) : LineOrder[k] = t
    ELSE 0

\* C12: a total or a recommendation line is on the page, and the estimator
\* has been called, only in a run the button's click triggered; in such a run
\* the figure rendered is that of the estimator's total on the current
\* inputs, it is rendered first, and the recommendation lines follow it in
\* the fixed order, none twice.
C12_RenderOrder ==
    /\ ~button => (total_co2 = None /\ displayed = None /\ out = <<>>)
    /\ button =>
        /\ total_co2 = Estimate(inputs)
        /\ displayed = <<Fmt2(total_co2)>>
        /\ Len(out) >= 1
        /\ out[1] = "Total"
        /\ \A i \in 2..Len(out) : Rank(out[i]) >= 1
        /\ \A i \in 2..Len(out) : \A j \in 2..Len(out) :
               i < j => Rank(out[i]) < Rank(out[j])

\* A click at the sliders' initial values: 315.50, then five lines and General.
C12_Witness ==
    /\ button
    /\ inputs = <<R(150), R(300), R(5), R(10), R(4), R(1), R(2)>>
    /\ displayed = <<31550>>
    /\ out = <<"Total", "Electricity", "Transportation", "Waste", "Diet",
               "Digital Footprint", "General">>

====
